---------------------------- MODULE Spec2Model ----------------------------
(***************************************************************************)
(* Model of the registration conversation engine of src/main.py:           *)
(* ConversationManager (start_conversation, process_step, the validators,  *)
(* _save_conversations) and the three FastAPI endpoints.                   *)
(*                                                                         *)
(* A text is a sequence of one-character strings, so that len(), lower(),  *)
(* int(), the regular expressions and strptime are computed as Python      *)
(* computes them.  A dict is a function whose domain is its key set.       *)
(***************************************************************************)
EXTENDS Integers, Sequences, FiniteSets, TLC

(***************************************************************************)
(* Bounds of the model.                                                    *)
(***************************************************************************)
\* number of conversations Start may create
MaxConvs == 1
\* largest reading of the wall clock
MaxTime == 1

(***************************************************************************)
(* Texts.                                                                  *)
(***************************************************************************)
UpperCase == <<"A","B","C","D","E","F","G","H","I","J","K","L","M",
               "N","O","P","Q","R","S","T","U","V","W","X","Y","Z">>
LowerCase == <<"a","b","c","d","e","f","g","h","i","j","k","l","m",
               "n","o","p","q","r","s","t","u","v","w","x","y","z">>
Digits == <<"0","1","2","3","4","5","6","7","8","9">>

Range(f) == {f[i] : i \in DOMAIN f}

DigitChars == Range(Digits)
AlphaChars == Range(UpperCase) \cup Range(LowerCase)
AlnumChars == AlphaChars \cup DigitChars

IsDigit(c) == c \in DigitChars
IsAlpha(c) == c \in AlphaChars
IsAlnum(c) == c \in AlnumChars

\* int(c) of one decimal digit
DigitVal(c) == (CHOOSE i \in DOMAIN Digits : Digits[i] = c) - 1

\* str.lower() of one character
LowerChar(c) ==
    IF c \in Range(UpperCase)
    THEN LowerCase[CHOOSE i \in DOMAIN UpperCase : UpperCase[i] = c]
    ELSE c

\* str.lower()
Lower(s) == [i \in DOMAIN s |-> LowerChar(s[i])]

\* the value of a non-empty text of decimal digits
RECURSIVE DecVal(_)
DecVal(s) ==
    IF Len(s) = 0 THEN 0
    ELSE 10 * DecVal(SubSeq(s, 1, Len(s) - 1)) + DigitVal(s[Len(s)])

AllIn(s, chars) == \A i \in DOMAIN s : s[i] \in chars

(***************************************************************************)
(* Optional[str]: user_input is None or a text.                            *)
(***************************************************************************)
None == [none |-> TRUE, text |-> <<>>]
Str(s) == [none |-> FALSE, text |-> s]
\* Python truthiness of an Optional[str]
Truthy(u) == ~u.none /\ Len(u.text) > 0

(***************************************************************************)
(* The validators.  Each returns "ok", "reject", or the name of the        *)
(* exception that leaves the handler.                                      *)
(***************************************************************************)
\* `$` of a Python regular expression: the end of the text, or just before
\* one trailing newline
Ends(s) == {Len(s)} \cup (IF Len(s) > 0 /\ s[Len(s)] = "\n" THEN {Len(s) - 1} ELSE {})

EmailLocalChars == AlnumChars \cup {".", "_", "%", "+", "-"}
EmailDomainChars == AlnumChars \cup {".", "-"}

\* re.match(r"^[a-zA-Z0-9._%+-]+@[a-zA-Z0-9.-]+\.[a-zA-Z]{2,}$", s)
MatchesEmail(s) ==
    \E n \in Ends(s) : \E at \in 2..n : \E dot \in (at + 2)..n :
        /\ s[at] = "@"
        /\ s[dot] = "."
        /\ AllIn(SubSeq(s, 1, at - 1), EmailLocalChars)
        /\ AllIn(SubSeq(s, at + 1, dot - 1), EmailDomainChars)
        /\ n - dot >= 2
        /\ AllIn(SubSeq(s, dot + 1, n), AlphaChars)

validate_email(u) ==
    IF u.none THEN "TypeError"
    ELSE IF MatchesEmail(u.text) THEN "ok" ELSE "reject"

\* re.match(r"^\+?1?\d{10,14}$", s)
MatchesPhone(s) ==
    \E n \in Ends(s) : \E plus \in {0, 1} : \E one \in {0, 1} :
        /\ plus + one <= n
        /\ plus = 1 => s[1] = "+"
        /\ one = 1 => s[plus + 1] = "1"
        /\ n - (plus + one) >= 10
        /\ n - (plus + one) <= 14
        /\ AllIn(SubSeq(s, plus + one + 1, n), DigitChars)

validate_phone(u) ==
    IF u.none THEN "TypeError"
    ELSE IF MatchesPhone(u.text) THEN "ok" ELSE "reject"

\* %d of strptime: 3[0-1] | [1-2]\d | 0[1-9] | [1-9] | " "[1-9]
DayToken(t) ==
    \/ Len(t) = 1 /\ IsDigit(t[1]) /\ t[1] # "0"
    \/ /\ Len(t) = 2
       /\ \/ t[1] = "3" /\ t[2] \in {"0", "1"}
          \/ t[1] \in {"1", "2"} /\ IsDigit(t[2])
          \/ t[1] \in {"0", " "} /\ IsDigit(t[2]) /\ t[2] # "0"

\* %m of strptime: 1[0-2] | 0[1-9] | [1-9]
MonthToken(t) ==
    \/ Len(t) = 1 /\ IsDigit(t[1]) /\ t[1] # "0"
    \/ /\ Len(t) = 2
       /\ \/ t[1] = "1" /\ t[2] \in {"0", "1", "2"}
          \/ t[1] = "0" /\ IsDigit(t[2]) /\ t[2] # "0"

\* %Y of strptime: \d\d\d\d
YearToken(t) == Len(t) = 4 /\ AllIn(t, DigitChars)

TokenVal(t) == IF t[1] = " " THEN DecVal(Tail(t)) ELSE DecVal(t)

IsLeap(y) == y % 4 = 0 /\ (y % 100 # 0 \/ y % 400 = 0)

DaysInMonth(y, m) ==
    IF m = 2 THEN (IF IsLeap(y) THEN 29 ELSE 28)
    ELSE IF m \in {4, 6, 9, 11} THEN 30 ELSE 31

\* datetime.strptime(s, "%d-%m-%Y") returns (does not raise ValueError)
ParsesDate(s) ==
    \E d1 \in 2..Len(s) : \E d2 \in (d1 + 2)..Len(s) :
        /\ s[d1] = "-"
        /\ s[d2] = "-"
        /\ DayToken(SubSeq(s, 1, d1 - 1))
        /\ MonthToken(SubSeq(s, d1 + 1, d2 - 1))
        /\ YearToken(SubSeq(s, d2 + 1, Len(s)))
        /\ LET day == TokenVal(SubSeq(s, 1, d1 - 1))
               month == TokenVal(SubSeq(s, d1 + 1, d2 - 1))
               year == DecVal(SubSeq(s, d2 + 1, Len(s)))
           IN  year >= 1 /\ day <= DaysInMonth(year, month)

validate_date(u) ==
    IF u.none THEN "TypeError"
    ELSE IF ParsesDate(u.text) THEN "ok" ELSE "reject"

\* the text without leading and trailing blanks (str.strip of int())
RECURSIVE Strip(_)
Strip(s) ==
    IF Len(s) > 0 /\ s[1] \in {" ", "\n"} THEN Strip(Tail(s))
    ELSE IF Len(s) > 0 /\ s[Len(s)] \in {" ", "\n"} THEN Strip(SubSeq(s, 1, Len(s) - 1))
    ELSE s

\* the digits of an int() literal: digits, single underscores only between digits
IntDigits(s) ==
    /\ Len(s) > 0
    /\ \A i \in DOMAIN s : IsDigit(s[i]) \/ s[i] = "_"
    /\ s[1] # "_" /\ s[Len(s)] # "_"
    /\ \A i \in 1..(Len(s) - 1) : ~(s[i] = "_" /\ s[i + 1] = "_")

Unsigned(s) == IF Len(s) > 0 /\ s[1] \in {"+", "-"} THEN Tail(s) ELSE s

\* int(s) returns (does not raise ValueError)
ParsesInt(s) == IntDigits(Unsigned(Strip(s)))

\* IntVal dropping the sign
IntValMagnitude(s) == DecVal(SelectSeq(Unsigned(Strip(s)), IsDigit))

\* int(s), for a text that parses
IntVal(s) ==
    LET t == Strip(s)
        mag == DecVal(SelectSeq(Unsigned(t), IsDigit))
    IN  IF t[1] = "-" THEN 0 - mag ELSE mag

(***************************************************************************)
(* Python dicts.                                                           *)
(***************************************************************************)
EmptyDict == [k \in {} |-> 0]
Has(d, k) == k \in DOMAIN d
\* d[k] = v
Put(d, k, v) == [x \in DOMAIN d \cup {k} |-> IF x = k THEN v ELSE d[x]]
\* del d[k]
Del(d, k) == [x \in DOMAIN d \ {k} |-> d[x]]

(***************************************************************************)
(* The texts the clients send.                                             *)
(***************************************************************************)
T_empty == <<>>
T_Y == <<"Y">>
T_YES == <<"Y","E","S">>
T_n == <<"n">>
T_No == <<"N","o">>
T_free == <<"A","1","2","3">>
T_email == <<"a","@","b",".","c","d">>
T_phone == <<"1","2","3","4","5","6","7","8","9","0">>
T_age == <<"6","1","+">>
T_date == <<"1","-","1","-","2","0","2","4">>
T_Air == <<"A","i","r">>
T_Dormitory == <<"D","o","r","m","i","t","o","r","y">>
T_seven == <<"7">>
T_eleven == <<"1","1">>

Texts == {T_empty, T_Y, T_YES, T_n, T_No, T_free, T_email, T_phone, T_age,
          T_date, T_Air, T_Dormitory, T_seven, T_eleven}

\* RegistrationStep.user_input: Optional[str]
Inputs == {None} \cup {Str(t) : t \in Texts}

\* further texts sent as the number of people
T_zero == <<"0">>
T_one == <<"1">>
T_ten == <<"1","0">>
T_signed == <<" ","+","0","9">>
T_minus == <<"-","1">>

CountInputs == {Str(t) : t \in {T_zero, T_one, T_ten, T_signed, T_minus}}

\* the steps whose validator accepts every text that is long enough
FreeTextSteps == {"name", "abhyasi_id", "travel_requirements_location"}

\* what a client sends to a conversation whose stored step is cur ("" when the
\* id names none): any input, except that at a free-text step the long texts
\* are represented by T_free, and the further numbers go to accommodation_people
Offered(cur) ==
    CASE cur \in FreeTextSteps ->
            {None, Str(T_empty), Str(T_Y), Str(T_age), Str(T_free)}
      [] cur = "" -> {None, Str(T_Y)}
      [] cur = "accommodation_people" -> Inputs \cup CountInputs
      [] OTHER -> Inputs

\* RegistrationStep.current_step, as the client fills it in
ClientSteps == {"start"}

(***************************************************************************)
(* process_step: the if/elif chain, one branch per step.                   *)
(***************************************************************************)
Branches == <<"start", "name", "email", "mobile", "age_group", "abhyasi_id",
              "arrival_date", "departure_date",
              "travel_requirements_confirmation", "travel_requirements_mode",
              "travel_requirements_location", "accommodation_confirmation",
              "accommodation_type", "accommodation_people", "confirmation">>

Terminal == {"completed", "cancelled"}

\* how far along the chain a step is; a terminal step is past its end
Position(s) ==
    IF s \in Range(Branches) THEN CHOOSE k \in DOMAIN Branches : Branches[k] = s
    ELSE Len(Branches) + 1
Steps == Range(Branches) \cup Terminal

age_groups == {<<"1","8","-","2","5">>, <<"2","6","-","4","0">>,
               <<"4","1","-","6","0">>, <<"6","1","+">>}
transport_modes == {<<"a","i","r">>, <<"t","r","a","i","n">>, <<"b","u","s">>,
                    <<"c","a","r">>}
accommodation_types == {<<"D","o","r","m","i","t","o","r","y">>,
                        <<"G","u","e","s","t"," ","H","o","u","s","e">>,
                        <<"S","i","n","g","l","e"," ","R","o","o","m">>,
                        <<"S","h","a","r","e","d"," ","R","o","o","m">>}
YesWords == {<<"y","e","s">>, <<"y">>}
NoWords == {<<"n","o">>, <<"n">>}

\* IsYes without lower()
IsYesCaseSensitive(u) == u.text \in YesWords
\* IsNo without lower()
IsNoCaseSensitive(u) == u.text \in NoWords

\* user_input.lower() in ["yes", "y"]
IsYes(u) == Lower(u.text) \in YesWords
\* user_input.lower() in ["no", "n"]
IsNo(u) == Lower(u.text) \in NoWords

\* The validation at the head of branch b on input u: "ok", "reject" (the
\* branch returns its error dict), or the exception the expression raises.
Check(b, u) ==
    CASE b = "start" -> "ok"
      [] b = "name" ->
            IF ~Truthy(u) \/ Len(u.text) < 2 THEN "reject" ELSE "ok"
      [] b = "email" -> validate_email(u)
      [] b = "mobile" -> validate_phone(u)
      [] b = "age_group" ->
            IF u.none \/ u.text \notin age_groups THEN "reject" ELSE "ok"
      [] b = "abhyasi_id" ->
            IF ~Truthy(u) \/ Len(u.text) < 4 THEN "reject" ELSE "ok"
      [] b \in {"arrival_date", "departure_date"} -> validate_date(u)
      [] b \in {"travel_requirements_confirmation", "accommodation_confirmation"} ->
            IF u.none THEN "AttributeError"
            ELSE IF IsYes(u) \/ IsNo(u) THEN "ok" ELSE "reject"
      [] b = "travel_requirements_mode" ->
            IF u.none THEN "AttributeError"
            ELSE IF Lower(u.text) \notin transport_modes THEN "reject" ELSE "ok"
      [] b = "travel_requirements_location" ->
            IF ~Truthy(u) THEN "reject" ELSE "ok"
      [] b = "accommodation_type" ->
            IF u.none \/ u.text \notin accommodation_types THEN "reject" ELSE "ok"
      [] b = "accommodation_people" ->
            IF u.none THEN "TypeError"
            ELSE IF ~ParsesInt(u.text) THEN "reject"
            ELSE IF IntVal(u.text) < 1 \/ IntVal(u.text) > 10 THEN "reject"
            ELSE "ok"
      [] b = "confirmation" ->
            IF u.none THEN "AttributeError" ELSE "ok"

ErrorMessage(b) ==
    CASE b = "name" -> "Please enter a valid name (at least 2 characters)"
      [] b = "email" -> "Please enter a valid email address"
      [] b = "mobile" -> "Please enter a valid mobile number"
      [] b = "age_group" -> "Invalid age group selection"
      [] b = "abhyasi_id" -> "Please enter a valid Abhyasi ID"
      [] b \in {"arrival_date", "departure_date"} ->
            "Please enter a valid date (DD-MM-YYYY format)"
      [] b \in {"travel_requirements_confirmation", "accommodation_confirmation"} ->
            "Please answer yes or no"
      [] b = "travel_requirements_mode" -> "Invalid transport mode"
      [] b = "travel_requirements_location" -> "Please provide arrival location"
      [] b = "accommodation_type" -> "Invalid accommodation type"
      [] b = "accommodation_people" ->
            "Please enter a valid number of people (1-10)"

\* ErrorResult naming the first input step whatever the branch
ErrorResultFirstStep(b) == [error |-> ErrorMessage(b), error_step |-> "name"]

\* the dict a branch returns when its validation rejects the input
ErrorResult(b) ==
    LET e == [error |-> ErrorMessage(b), error_step |-> b]
    IN  CASE b = "travel_requirements_mode" -> Put(e, "options", transport_modes)
          [] b = "accommodation_type" -> Put(e, "options", accommodation_types)
          [] OTHER -> e

\* NextStep with "no" at travel_requirements_confirmation going to confirmation
NextStepSkipping(b, u) ==
    CASE b = "start" -> "name"
      [] b = "name" -> "email"
      [] b = "email" -> "mobile"
      [] b = "mobile" -> "age_group"
      [] b = "age_group" -> "abhyasi_id"
      [] b = "abhyasi_id" -> "arrival_date"
      [] b = "arrival_date" -> "departure_date"
      [] b = "departure_date" -> "travel_requirements_confirmation"
      [] b = "travel_requirements_confirmation" ->
            IF IsYesCaseSensitive(u) \/ Lower(u.text) \in YesWords
            THEN "travel_requirements_mode"
            ELSE "confirmation"
      [] b = "travel_requirements_mode" -> "travel_requirements_location"
      [] b = "travel_requirements_location" -> "accommodation_confirmation"
      [] b = "accommodation_confirmation" ->
            IF Lower(u.text) \in YesWords THEN "accommodation_type" ELSE "confirmation"
      [] b = "accommodation_type" -> "accommodation_people"
      [] b = "accommodation_people" -> "confirmation"
      [] b = "confirmation" ->
            IF Lower(u.text) \in YesWords THEN "completed" ELSE "cancelled"

\* NextStep with the start branch going to email
NextStepPastName(b, u) ==
    CASE b = "start" -> "email"
      [] b = "name" -> "email"
      [] b = "email" -> "mobile"
      [] b = "mobile" -> "age_group"
      [] b = "age_group" -> "abhyasi_id"
      [] b = "abhyasi_id" -> "arrival_date"
      [] b = "arrival_date" -> "departure_date"
      [] b = "departure_date" -> "travel_requirements_confirmation"
      [] b = "travel_requirements_confirmation" ->
            IF Lower(u.text) \in YesWords THEN "travel_requirements_mode"
            ELSE "accommodation_confirmation"
      [] b = "travel_requirements_mode" -> "travel_requirements_location"
      [] b = "travel_requirements_location" -> "accommodation_confirmation"
      [] b = "accommodation_confirmation" ->
            IF Lower(u.text) \in YesWords THEN "accommodation_type" ELSE "confirmation"
      [] b = "accommodation_type" -> "accommodation_people"
      [] b = "accommodation_people" -> "confirmation"
      [] b = "confirmation" ->
            IF Lower(u.text) \in YesWords THEN "completed" ELSE "cancelled"

\* the step a branch moves the conversation to when it accepts the input
NextStep(b, u) ==
    CASE b = "start" -> "name"
      [] b = "name" -> "email"
      [] b = "email" -> "mobile"
      [] b = "mobile" -> "age_group"
      [] b = "age_group" -> "abhyasi_id"
      [] b = "abhyasi_id" -> "arrival_date"
      [] b = "arrival_date" -> "departure_date"
      [] b = "departure_date" -> "travel_requirements_confirmation"
      [] b = "travel_requirements_confirmation" ->
            IF IsYes(u) THEN "travel_requirements_mode"
            ELSE "accommodation_confirmation"
      [] b = "travel_requirements_mode" -> "travel_requirements_location"
      [] b = "travel_requirements_location" -> "accommodation_confirmation"
      [] b = "accommodation_confirmation" ->
            IF IsYes(u) THEN "accommodation_type" ELSE "confirmation"
      [] b = "accommodation_type" -> "accommodation_people"
      [] b = "accommodation_people" -> "confirmation"
      [] b = "confirmation" -> IF IsYes(u) THEN "completed" ELSE "cancelled"

PromptOf(s) ==
    CASE s = "name" -> "Enter your full name"
      [] s = "email" -> "Enter your email address"
      [] s = "mobile" -> "Enter your mobile number"
      [] s = "age_group" -> "Select your age group"
      [] s = "abhyasi_id" -> "Enter your Abhyasi ID"
      [] s = "arrival_date" -> "Enter your arrival date (DD-MM-YYYY)"
      [] s = "departure_date" -> "Enter your departure date (DD-MM-YYYY)"
      [] s = "travel_requirements_confirmation" ->
            "Do you have any travel requirements? (yes/no)"
      [] s = "travel_requirements_mode" -> "Select transport mode"
      [] s = "travel_requirements_location" -> "Enter your arrival location"
      [] s = "accommodation_confirmation" -> "Do you need accommodation? (yes/no)"
      [] s = "accommodation_type" -> "Select accommodation type"
      [] s = "accommodation_people" -> "Enter number of people for accommodation"
      [] s = "confirmation" -> "Confirm your registration details"
      [] s = "completed" -> "Registration completed successfully!"
      [] s = "cancelled" -> "Registration cancelled"

\* the dict a branch returns when it accepts the input, but for the
\* registration_data the two branches entering confirmation add on return
SuccessResult(b, u, id) ==
    LET s == NextStep(b, u)
        r == [next_step |-> s, next_step_message |-> PromptOf(s)]
    IN  CASE s = "age_group" ->
                Put(r, "options", <<"18-25", "26-40", "41-60", "61+">>)
          [] s = "travel_requirements_mode" ->
                Put(r, "options", <<"Air", "Train", "Bus", "Car">>)
          [] s = "accommodation_type" ->
                Put(r, "options",
                    <<"Dormitory", "Guest House", "Single Room", "Shared Room">>)
          [] s = "completed" -> Put(r, "conversation_id", id)
          [] OTHER -> r

\* ReturnsData with the completion result carrying registration_data too
ReturnsDataOnCompletion(s) == s \in {"confirmation", "completed"}

\* whether the dict returned on entering step s carries registration_data
ReturnsData(s) == s = "confirmation"

(***************************************************************************)
(* The statements of a branch that touch the conversation, in order.       *)
(***************************************************************************)
SetField(k, v) == [op |-> "SetField", key |-> k, val |-> v]
SetStep(s) == [op |-> "SetStep", val |-> s]
SetTemp(k, v) == [op |-> "SetTemp", key |-> k, val |-> v]
TempPut(k, sub, v) == [op |-> "TempPut", key |-> k, sub |-> sub, val |-> v]
Commit(k, f) == [op |-> "Commit", key |-> k, field |-> f]
\* DelTemp emptying the dict under the key instead of deleting the key
DelTempClears(k) == [op |-> "SetTemp", key |-> k, val |-> EmptyDict]
DelTemp(k) == [op |-> "DelTemp", key |-> k]
Stamp == [op |-> "Stamp"]
Save == [op |-> "Save"]
Return(r, data) == [op |-> "Return", val |-> r, data |-> data]
Raise(code, detail) == [op |-> "Raise", code |-> code, detail |-> detail]

\* FieldOf with each value stored under the key of the step that follows
FieldOfNext(b) ==
    CASE b = "name" -> "email"
      [] b = "email" -> "mobile"
      [] b = "mobile" -> "age_group"
      [] b = "age_group" -> "abhyasi_id"
      [] b = "abhyasi_id" -> "arrival_date"
      [] b = "arrival_date" -> "departure_date"
      [] b = "departure_date" -> "full_name"

\* the key of registration_data a plain step stores its input under
FieldOf(b) ==
    CASE b = "name" -> "full_name"
      [] b = "email" -> "email"
      [] b = "mobile" -> "mobile"
      [] b = "age_group" -> "age_group"
      [] b = "abhyasi_id" -> "abhyasi_id"
      [] b = "arrival_date" -> "arrival_date"
      [] b = "departure_date" -> "departure_date"

Statements(b, u) ==
    CASE b \in {"name", "email", "mobile", "age_group", "abhyasi_id",
                "arrival_date", "departure_date"} ->
            <<SetField(FieldOf(b), u.text), SetStep(NextStep(b, u))>>
      [] b = "travel_requirements_mode" ->
            <<SetTemp("temp_travel_requirements", [transport_mode |-> Lower(u.text)]),
              SetStep(NextStep(b, u))>>
      [] b = "travel_requirements_location" ->
            <<TempPut("temp_travel_requirements", "arrival_location", u.text),
              Commit("temp_travel_requirements", "travel_requirements"),
              DelTemp("temp_travel_requirements"),
              SetStep(NextStep(b, u))>>
      [] b = "accommodation_type" ->
            <<SetTemp("temp_accommodation", [type |-> u.text]),
              SetStep(NextStep(b, u))>>
      [] b = "accommodation_people" ->
            <<TempPut("temp_accommodation", "number_of_people", IntVal(u.text)),
              Commit("temp_accommodation", "accommodation"),
              DelTemp("temp_accommodation"),
              SetStep(NextStep(b, u))>>
      [] b = "confirmation" ->
            IF IsYes(u) THEN <<Stamp, SetStep("completed"), Save>>
            ELSE <<SetStep("cancelled")>>
      [] OTHER -> <<SetStep(NextStep(b, u))>>

\* FallThrough without the raise: the handler returns None
FallThroughReturns == <<[op |-> "Save"], [op |-> "Return", val |-> EmptyDict, data |-> FALSE]>>

\* the statements after the chain, reached when no branch matched
FallThrough == <<Save, Raise(400, "Invalid conversation state")>>

(***************************************************************************)
(* State.                                                                  *)
(***************************************************************************)
VARIABLES
    conversations,  \* ConversationManager.conversations: the list of dicts
    durable,        \* the contents of conversations.json
    aliased,        \* <<i, temp key, field>>: conversations[i][temp key] and
                    \* its registration_data[field] are one dict object
    now,            \* the wall clock read by datetime.now()
    uuids,          \* how many values uuid.uuid4() has returned
    threads,        \* the requests in flight, one per worker thread
    base,           \* the store when the requests in flight were received
    last,           \* the call that returned last
    accepted,       \* per conversation, how many calls returned a next_step
    declined,       \* <<id, step>>: "no" was accepted at that confirmation step
    writes          \* the outcome of the latest write of conversations.json,
                    \* and whether any write has failed so far

vars == <<conversations, durable, aliased, now, uuids, threads, base, last,
          accepted, declined, writes>>

Threads == {1, 2}

Store(cs, d, a) == [conversations |-> cs, durable |-> d, aliased |-> a]
CurrentStore == Store(conversations, durable, aliased)

NoResult == [kind |-> "none", body |-> EmptyDict]
Ok(body) == [kind |-> "ok", body |-> body]
\* raise HTTPException(status_code, detail)
HttpError(code, detail) ==
    [kind |-> "http_error", body |-> [status_code |-> code, detail |-> detail]]
\* an exception no handler catches: the request ends in a server error
Fault(exc) == [kind |-> "fault", body |-> [exception |-> exc]]

NoRequest == [conversation_id |-> 0, current_step |-> "", user_input |-> None]
Idle ==
    [pc |-> "idle", req |-> NoRequest, conv |-> 0, k |-> 0, todo |-> <<>>,
     result |-> NoResult, saved |-> FALSE]
\* a request entering process_step
Entering(req) == [Idle EXCEPT !.pc = "lookup", !.req = req]
Done(th, result) == [th EXCEPT !.pc = "done", !.todo = <<>>, !.result = result]

\* the outcome of open(file, "w") and json.dump
SaveOutcomes == {"written", "open_failed", "write_failed"}

\* save_conversations opening the file with mode "x": an existing file is
\* never written again
save_conversationsExclusive(S, io) ==
    IF io = "written" /\ S.durable.state = "absent"
    THEN [S EXCEPT !.durable = [state |-> "json", data |-> S.conversations]]
    ELSE S

\* _save_conversations: IOError is caught, the file is left as the failure left it
save_conversations(S, io) ==
    CASE io = "written" ->
            [S EXCEPT !.durable = [state |-> "json", data |-> S.conversations]]
      [] io = "open_failed" -> S
      [] io = "write_failed" ->
            [S EXCEPT !.durable = [state |-> "partial", data |-> <<>>]]

\* the exception open() or json.dump raises inside the try block
SaveRaised(io) == IF io = "written" THEN "none" ELSE "OSError"

\* SaveCaught with the except clause of _load_conversations' decoder only
SaveCaughtDecodeOnly == {"JSONDecodeError"}

\* except IOError: IOError is OSError under its older name
SaveCaught == {"OSError"}

\* the exception _save_conversations lets through to its caller, "none" if none
SaveEscapes(io) == IF SaveRaised(io) \in SaveCaught THEN "none" ELSE SaveRaised(io)

\* Lookup falling back on the first conversation
LookupOrFirst(cs, id) ==
    IF \E i \in DOMAIN cs : cs[i].id = id
    THEN CHOOSE i \in DOMAIN cs : cs[i].id = id
    ELSE IF cs # <<>> THEN 1 ELSE 0

\* next(conv for conv in conversations if conv["id"] == id, None)
Lookup(cs, id) ==
    IF \E i \in DOMAIN cs : cs[i].id = id
    THEN CHOOSE i \in DOMAIN cs :
            cs[i].id = id /\ \A j \in 1..(i - 1) : cs[j].id # id
    ELSE 0

\* SetConv writing to the first conversation whatever the index
SetConvFirst(S, i, c) == [S EXCEPT !.conversations[1] = c]

\* conversation i replaced by c: the dict the lookup found is updated in place
SetConv(S, i, c) == [S EXCEPT !.conversations[i] = c]

\* one statement st of a branch, run by thread th on conversation th.conv
ExecStmt(S, th, st, clock, io) ==
    LET i == th.conv
        c == S.conversations[i]
        rest == [th EXCEPT !.todo = Tail(th.todo)]
        keyError == [S |-> S, th |-> Done(th, Fault("KeyError"))]
    IN  CASE st.op = "SetField" ->
                [S |-> SetConv(S, i, Put(c, "registration_data",
                                        Put(c.registration_data, st.key, st.val))),
                 th |-> rest]
          [] st.op = "SetStep" ->
                [S |-> SetConv(S, i, Put(c, "current_step", st.val)), th |-> rest]
          [] st.op = "SetTemp" ->
                [S |-> [SetConv(S, i, Put(c, st.key, st.val)) EXCEPT
                          !.aliased = {a \in S.aliased : ~(a[1] = i /\ a[2] = st.key)}],
                 th |-> rest]
          [] st.op = "TempPut" ->
                IF ~Has(c, st.key) THEN keyError
                ELSE LET obj == Put(c[st.key], st.sub, st.val)
                         c1 == Put(c, st.key, obj)
                         shared == {a \in S.aliased : a[1] = i /\ a[2] = st.key}
                         c2 == IF shared = {} THEN c1
                               ELSE Put(c1, "registration_data",
                                        Put(c1.registration_data,
                                            (CHOOSE a \in shared : TRUE)[3], obj))
                     IN  [S |-> SetConv(S, i, c2), th |-> rest]
          [] st.op = "Commit" ->
                IF ~Has(c, st.key) THEN keyError
                ELSE [S |-> [SetConv(S, i, Put(c, "registration_data",
                                    Put(c.registration_data, st.field, c[st.key])))
                             EXCEPT !.aliased =
                                {a \in S.aliased : ~(a[1] = i /\ a[3] = st.field)}
                                \cup {<<i, st.key, st.field>>}],
                      th |-> rest]
          [] st.op = "DelTemp" ->
                IF ~Has(c, st.key) THEN keyError
                ELSE [S |-> [SetConv(S, i, Del(c, st.key)) EXCEPT
                               !.aliased = {a \in S.aliased : ~(a[1] = i /\ a[2] = st.key)}],
                      th |-> rest]
          [] st.op = "Stamp" ->
                [S |-> SetConv(S, i, Put(c, "registration_data",
                            Put(c.registration_data, "registration_timestamp", clock))),
                 th |-> rest]
          [] st.op = "Save" ->
                IF SaveEscapes(io) = "none"
                THEN [S |-> save_conversations(S, io), th |-> [rest EXCEPT !.saved = TRUE]]
                ELSE [S |-> save_conversations(S, io),
                      th |-> Done([th EXCEPT !.saved = TRUE], Fault(SaveEscapes(io)))]
          [] st.op = "Return" ->
                [S |-> S,
                 th |-> Done(th, Ok(IF st.data
                                    THEN Put(st.val, "registration_data", c.registration_data)
                                    ELSE st.val))]
          [] st.op = "Raise" ->
                [S |-> S, th |-> Done(th, HttpError(st.code, st.detail))]

\* DispatchKey trusting the request's current_step
DispatchKeyFromRequest(S, th) == th.req.current_step

\* conversation["current_step"], which the chain tests
DispatchKey(S, th) == S.conversations[th.conv].current_step

\* One step of a request in process_step: the lookup, the if/elif chain, or
\* one statement of the branch.  The tests of the chain only read
\* current_step and a failed test has no effect, so the chain is one step that
\* selects the branch of the step stored at that moment; it validates the
\* request's own input on the way, which no other request can see.
process_step(S, th, clock, io) ==
    CASE th.pc = "lookup" ->
            LET i == Lookup(S.conversations, th.req.conversation_id)
            IN  IF i = 0
                THEN [S |-> S, th |-> Done(th, HttpError(404, "Conversation not found"))]
                ELSE [S |-> S, th |-> [th EXCEPT !.pc = "dispatch", !.conv = i]]
      [] th.pc = "dispatch" ->
            LET b == DispatchKey(S, th)
                u == th.req.user_input
            IN  IF b \in Range(Branches)
                THEN LET v == Check(b, u)
                         at == [th EXCEPT !.k = Position(b)]
                     IN  CASE v = "ok" ->
                                [S |-> S,
                                 th |-> [at EXCEPT !.pc = "body", !.todo =
                                    Statements(b, u) \o
                                    <<Return(SuccessResult(b, u, th.req.conversation_id),
                                             ReturnsData(NextStep(b, u)))>>]]
                           [] v = "reject" -> [S |-> S, th |-> Done(at, Ok(ErrorResult(b)))]
                           [] OTHER -> [S |-> S, th |-> Done(at, Fault(v))]
                ELSE [S |-> S, th |-> [th EXCEPT !.pc = "body", !.todo = FallThrough]]
      [] th.pc = "body" -> ExecStmt(S, th, Head(th.todo), clock, io)

\* process_step run from entry to return with no other request in between
RECURSIVE Run(_, _, _, _)
Run(S, th, clock, io) ==
    IF th.pc = "done" THEN [S |-> S, th |-> th]
    ELSE LET r == process_step(S, th, clock, io)
         IN  Run(r.S, r.th, clock, io)

\* the call a finished request leaves in `last`
CallOf(op, th) ==
    [op |-> op, req |-> th.req, result |-> th.result, saved |-> th.saved]

(***************************************************************************)
(* Initial state: no conversations.json, so _load_conversations returns [] *)
(***************************************************************************)
Init ==
    /\ conversations = <<>>
    /\ durable = [state |-> "absent", data |-> <<>>]
    /\ aliased = {}
    /\ now = 0
    /\ uuids = 0
    /\ threads = [t \in Threads |-> Idle]
    /\ base = Store(<<>>, [state |-> "absent", data |-> <<>>], {})
    /\ last = [op |-> "none", req |-> NoRequest, result |-> NoResult, saved |-> FALSE]
    /\ accepted = <<>>
    /\ declined = {}
    /\ writes = [outcome |-> "none", lost |-> FALSE]

Quiet == \A t \in Threads : threads[t].pc = "idle"

\* the clock advances
Tick ==
    /\ now < MaxTime
    /\ now' = now + 1
    /\ UNCHANGED <<conversations, durable, aliased, uuids, threads, base, last,
                   accepted, declined, writes>>

\* uuid4 returning its last value again
uuid4Repeats == IF uuids = 0 THEN 1 ELSE uuids

\* str(uuid.uuid4()): a value uuid4 has not returned before
uuid4 == uuids + 1

\* the bookkeeping of a write of conversations.json that ended as io
Wrote(io) == writes' = [outcome |-> io, lost |-> writes.lost \/ io # "written"]

\* POST /start: start_conversation, while fewer than limit conversations exist
Start(io, limit) ==
    /\ Quiet
    /\ uuids < limit
    /\ LET conversation_id == uuid4
           conversation == [id |-> conversation_id, timestamp |-> now,
                            steps |-> <<>>, current_step |-> "start",
                            registration_data |-> EmptyDict]
           S == save_conversations(
                    Store(Append(conversations, conversation), durable, aliased), io)
       IN  /\ conversations' = S.conversations
           /\ durable' = S.durable
           /\ last' = [op |-> "start", req |-> NoRequest,
                       result |-> IF SaveEscapes(io) = "none"
                                  THEN Ok([conversation_id |-> conversation_id])
                                  ELSE Fault(SaveEscapes(io)),
                       saved |-> TRUE]
    /\ uuids' = uuids + 1
    /\ accepted' = Append(accepted, 0)
    /\ Wrote(io)
    /\ UNCHANGED <<aliased, now, threads, base, declined>>

\* the step stored for conversation id, "" when there is none
StoredStep(id) ==
    LET i == Lookup(conversations, id)
    IN  IF i = 0 THEN "" ELSE conversations[i].current_step

\* the requests a client may send when ids up to limit can have been issued
Requests(limit) ==
    {[conversation_id |-> id, current_step |-> cs, user_input |-> u] :
        id \in 1..(limit + 1), cs \in ClientSteps, u \in Inputs \cup CountInputs}

\* a finished request returned a next_step
Accepted(th) == th.result.kind = "ok" /\ Has(th.result.body, "next_step")

ConfirmationSteps == {"travel_requirements_confirmation", "accommodation_confirmation"}

\* the bookkeeping of a finished request: accepted, declined
Observe(th) ==
    /\ accepted' = IF Accepted(th) THEN [accepted EXCEPT ![th.conv] = @ + 1]
                   ELSE accepted
    /\ declined' = IF /\ Accepted(th)
                      /\ Branches[th.k] \in ConfirmationSteps
                      /\ IsNo(th.req.user_input)
                   THEN declined \cup {<<th.req.conversation_id, Branches[th.k]>>}
                   ELSE declined

\* POST /process: process_step, with no other request in flight, on a
\* conversation that is at most depth steps along the chain; the outcome of
\* the file write is open only when the call writes
Advance(req, depth) ==
    /\ Quiet
    /\ req.user_input \in Offered(StoredStep(req.conversation_id))
    /\ \/ Lookup(conversations, req.conversation_id) = 0
       \/ Position(StoredStep(req.conversation_id)) <= depth
    /\ \E w \in {Run(CurrentStore, Entering(req), now, "written")} :
        \E io \in (IF w.th.saved THEN SaveOutcomes ELSE {"written"}) :
            \E r \in {IF io = "written" THEN w
                      ELSE Run(CurrentStore, Entering(req), now, io)} :
                /\ conversations' = r.S.conversations
                /\ durable' = r.S.durable
                /\ aliased' = r.S.aliased
                /\ last' = CallOf("advance", r.th)
                /\ Observe(r.th)
                /\ IF r.th.saved THEN Wrote(io) ELSE UNCHANGED writes
    /\ UNCHANGED <<now, uuids, threads, base>>

\* every step of the chain, and the terminal steps past it
FullDepth == Len(Branches) + 1

Next ==
    \/ Tick
    \/ \E io \in SaveOutcomes : Start(io, MaxConvs)
    \/ \E req \in Requests(MaxConvs) : Advance(req, FullDepth)

Spec == Init /\ [][Next]_vars

\* some call on conversation id that Advance can make now is accepted
CanProceed(id) ==
    /\ Quiet
    /\ \E req \in Requests(MaxConvs) :
        /\ req.conversation_id = id
        /\ req.user_input \in Offered(StoredStep(id))
        /\ Accepted(Run(CurrentStore, Entering(req), now, "written").th)

\* the step of Next that counts an accepted call on conversation id, which
\* is not terminal: Observe is the one place where accepted[i] grows
AcceptedCount(id) ==
    /\ StoredStep(id) \in Range(Branches)
    /\ accepted' = [accepted EXCEPT ![Lookup(conversations, id)] = @ + 1]

\* Spec with clients that keep sending, to every conversation that is not
\* terminal, inputs of which one is accepted in the end
SpecLive == Spec /\ \A id \in 1..MaxConvs : WF_accepted(AcceptedCount(id))

(***************************************************************************)
(* Several conversations, each advanced through the first steps only.      *)
(***************************************************************************)
\* number of conversations Start may create in SpecMany
ManyConvs == 2
\* how many steps along the chain a conversation is advanced in SpecMany
ManyDepth == 1

NextMany ==
    \/ Tick
    \/ \E io \in SaveOutcomes : Start(io, ManyConvs)
    \/ \E req \in Requests(ManyConvs) : Advance(req, ManyDepth)

SpecMany == Init /\ [][NextMany]_vars

(***************************************************************************)
(* One conversation taken through the whole chain while others are         *)
(* started, so that the file is written with the conversation under way.   *)
(***************************************************************************)
\* number of conversations Start may create in SpecSnap
SnapConvs == 2

NextSnap ==
    \/ \E io \in SaveOutcomes : Start(io, SnapConvs)
    \/ \E req \in Requests(SnapConvs) :
            Advance(req, IF req.conversation_id = 1 THEN FullDepth ELSE 0)

SpecSnap == Init /\ [][NextSnap]_vars

(***************************************************************************)
(* GET /registrations, on a store loaded from conversations.json.          *)
(***************************************************************************)
\* number of records in the file the store is loaded from
ListConvs == 5

\* _load_conversations: the parsed file, [] when it is absent or unreadable
load_conversations(d) == IF d.state = "json" THEN d.data ELSE <<>>

\* the registration_data of record i once its plain steps are passed
PlainData(i) ==
    [full_name |-> <<"N", Digits[i + 1]>>, email |-> T_email, mobile |-> T_phone,
     age_group |-> T_age, abhyasi_id |-> T_free, arrival_date |-> T_date,
     departure_date |-> T_date]

\* the records an earlier run of the program can have left as record i of
\* the file: a cancelled one, or one completed at some time
StoredRecords(i) ==
    {[id |-> i, timestamp |-> 0, steps |-> <<>>, current_step |-> "cancelled",
      registration_data |-> PlainData(i)]}
    \cup {[id |-> i, timestamp |-> 0, steps |-> <<>>, current_step |-> "completed",
           registration_data |-> Put(PlainData(i), "registration_timestamp", t)] :
            t \in 0..MaxTime}

\* the files of exactly n records
RECURSIVE FilesOf(_)
FilesOf(n) ==
    IF n = 0 THEN {<<>>}
    ELSE {Append(f, r) : f \in FilesOf(n - 1), r \in StoredRecords(n)}

StoredFiles == UNION {FilesOf(n) : n \in 0..ListConvs}

\* the state after construction when conversations.json holds one of files
Loaded(files) ==
    \E file \in files :
        /\ durable = [state |-> "json", data |-> file]
        /\ conversations = load_conversations(durable)
        /\ aliased = {}
        /\ now = MaxTime
        /\ uuids = Len(file)
        /\ threads = [t \in Threads |-> Idle]
        /\ base = Store(<<>>, [state |-> "absent", data |-> <<>>], {})
        /\ last = [op |-> "none", req |-> NoRequest, result |-> NoResult, saved |-> FALSE]
        /\ accepted = [i \in 1..Len(file) |-> 0]
        /\ declined = {}
        /\ writes = [outcome |-> "none", lost |-> FALSE]

InitLoaded == Loaded(StoredFiles)

\* x.get("registration_timestamp", ""): isoformat texts of one format compare
\* as their times do, and "" is below them all
SortKey(x) ==
    IF Has(x, "registration_timestamp") THEN x.registration_timestamp + 1 ELSE 0

\* list.sort puts a before b
Before(a, b, reverse) ==
    IF reverse THEN SortKey(a) > SortKey(b) ELSE SortKey(a) < SortKey(b)

\* x put into the sorted sequence s behind the elements it is not before
RECURSIVE Insert(_, _, _)
Insert(s, x, reverse) ==
    IF s = <<>> THEN <<x>>
    ELSE IF Before(x, Head(s), reverse) THEN <<x>> \o s
    ELSE <<Head(s)>> \o Insert(Tail(s), x, reverse)

\* list.sort(key, reverse): stable in both directions
RECURSIVE SortInto(_, _, _)
SortInto(acc, s, reverse) ==
    IF s = <<>> THEN acc
    ELSE SortInto(Insert(acc, Head(s), reverse), Tail(s), reverse)

\* an index of a slice, as Python clamps it
SliceIndex(x, n) ==
    IF x < 0 THEN (IF x + n < 0 THEN 0 ELSE x + n)
    ELSE (IF x > n THEN n ELSE x)

\* PySlice with the element at b included
PySliceInclusive(s, a, b) ==
    LET lo == SliceIndex(a, Len(s))
        hi == SliceIndex(b + 1, Len(s))
    IN  IF lo < hi THEN SubSeq(s, lo + 1, hi) ELSE <<>>

\* s[a:b]
PySlice(s, a, b) ==
    LET lo == SliceIndex(a, Len(s))
        hi == SliceIndex(b, Len(s))
    IN  IF lo < hi THEN SubSeq(s, lo + 1, hi) ELSE <<>>

\* list_registrations
list_registrations(cs, skip, limit, sort_by, sort_order) ==
    LET completed == SelectSeq(cs, LAMBDA conv : conv.current_step = "completed")
        completed_registrations ==
            [k \in DOMAIN completed |-> completed[k].registration_data]
        sorted == IF sort_by = "timestamp"
                  THEN SortInto(<<>>, completed_registrations, sort_order = "desc")
                  ELSE completed_registrations
    IN  [registrations |-> PySlice(sorted, skip, skip + limit),
         total_count |-> Len(completed_registrations),
         skip |-> skip,
         limit |-> limit]

\* the query parameters the clients send
ListSkips == {0 - 2, 0, 2, ListConvs, ListConvs + 1}
ListLimits == {0 - 1, 0, 2, 100}
ListSortBys == {"timestamp", "full_name"}
ListSortOrders == {"asc", "desc"}

\* GET /registrations
List(skip, limit, sort_by, sort_order) ==
    /\ Quiet
    /\ last' = [op |-> "list",
                req |-> [skip |-> skip, limit |-> limit, sort_by |-> sort_by,
                         sort_order |-> sort_order],
                result |-> Ok(list_registrations(conversations, skip, limit,
                                                 sort_by, sort_order)),
                saved |-> FALSE]
    /\ UNCHANGED <<conversations, durable, aliased, now, uuids, threads, base,
                   accepted, declined, writes>>

NextList ==
    \E skip \in ListSkips, limit \in ListLimits, sort_by \in ListSortBys,
       sort_order \in ListSortOrders : List(skip, limit, sort_by, sort_order)

SpecList == InitLoaded /\ [][NextList]_vars

(***************************************************************************)
(* The three endpoints on a store loaded from a small file.                *)
(***************************************************************************)
\* number of records in the file, and of conversations Start may add to them
FrameConvs == 2

InitFrame == Loaded(UNION {FilesOf(n) : n \in 0..FrameConvs})

\* calls on the conversations that are new or terminal, and GET
\* /registrations with the default skip, limit and sort_by
NextFrame ==
    \/ \E io \in SaveOutcomes : Start(io, 2 * FrameConvs)
    \/ \E req \in Requests(2 * FrameConvs) :
            Advance(req, IF StoredStep(req.conversation_id) \in Terminal
                         THEN FullDepth ELSE ManyDepth)
    \/ \E sort_order \in ListSortOrders : List(0, 100, "timestamp", sort_order)

SpecFrame == InitFrame /\ [][NextFrame]_vars

(***************************************************************************)
(* Two requests on one conversation at once.  FastAPI runs a `def`         *)
(* endpoint on a thread of its pool, so two calls of process_step          *)
(* interleave statement by statement; process_step takes no lock.          *)
(***************************************************************************)
\* the texts the clients of SpecConc send
RaceTexts == <<T_Y, T_n, T_free, T_email, T_phone, T_age, T_date, T_Air,
               T_Dormitory, T_seven>>

\* a call of the client that brings the conversation to the step of the race:
\* a call with one of the texts, which the engine accepts
Scripted(req) ==
    /\ req.user_input \in {Str(RaceTexts[n]) : n \in DOMAIN RaceTexts}
    /\ Advance(req, FullDepth)
    /\ Accepted([result |-> last'.result])

\* two requests for conversation id arrive together
Fork(id, m, n) ==
    /\ Quiet
    /\ Lookup(conversations, id) # 0
    /\ m <= n
    /\ Str(RaceTexts[m]) \in Offered(StoredStep(id))
    /\ Str(RaceTexts[n]) \in Offered(StoredStep(id))
    /\ threads' =
        [t \in Threads |->
            Entering([conversation_id |-> id, current_step |-> StoredStep(id),
                      user_input |-> Str(RaceTexts[IF t = 1 THEN m ELSE n])])]
    /\ base' = CurrentStore
    /\ UNCHANGED <<conversations, durable, aliased, now, uuids, last, accepted,
                   declined, writes>>

Running(t) == threads[t].pc \notin {"idle", "done"}

\* thread t runs its next step of process_step
ThreadStep(t) ==
    /\ Running(t)
    /\ \E io \in (IF threads[t].pc = "body" /\ Head(threads[t].todo).op = "Save"
                  THEN SaveOutcomes ELSE {"written"}) :
        \E r \in {process_step(CurrentStore, threads[t], now, io)} :
            /\ conversations' = r.S.conversations
            /\ durable' = r.S.durable
            /\ aliased' = r.S.aliased
            /\ threads' = [threads EXCEPT ![t] = r.th]
            /\ IF r.th.saved /\ ~threads[t].saved THEN Wrote(io) ELSE UNCHANGED writes
    /\ UNCHANGED <<now, uuids, base, last, accepted, declined>>

\* the write of Start succeeds here; the writes of the two threads may fail
NextConc ==
    \/ Start("written", MaxConvs)
    \/ \E req \in Requests(MaxConvs) : Scripted(req)
    \/ \E id \in 1..MaxConvs, m, n \in DOMAIN RaceTexts : Fork(id, m, n)
    \/ \E t \in Threads : ThreadStep(t)

SpecConc == Init /\ [][NextConc]_vars

(***************************************************************************)
(* Properties of the sequential engine.                                    *)
(***************************************************************************)
\* this step is one call of process_step; its request and result are in last'
AdvanceStep == last'.op = "advance" /\ now' = now

\* the registration_data of the conversation with this id
FieldsOf(id) == conversations[Lookup(conversations, id)].registration_data

\* The graph of Variant B.
VariantB ==
    {<<"start", "name">>, <<"name", "email">>, <<"email", "mobile">>,
     <<"mobile", "age_group">>, <<"age_group", "abhyasi_id">>,
     <<"abhyasi_id", "arrival_date">>, <<"arrival_date", "departure_date">>,
     <<"departure_date", "travel_requirements_confirmation">>,
     <<"travel_requirements_confirmation", "travel_requirements_mode">>,
     <<"travel_requirements_confirmation", "accommodation_confirmation">>,
     <<"travel_requirements_mode", "travel_requirements_location">>,
     <<"travel_requirements_location", "accommodation_confirmation">>,
     <<"accommodation_confirmation", "accommodation_type">>,
     <<"accommodation_confirmation", "confirmation">>,
     <<"accommodation_type", "accommodation_people">>,
     <<"accommodation_people", "confirmation">>,
     <<"confirmation", "completed">>, <<"confirmation", "cancelled">>}

\* The path of Variant B without its two optional branches.
LinearPath ==
    <<"start", "name", "email", "mobile", "age_group", "abhyasi_id",
      "arrival_date", "departure_date", "travel_requirements_confirmation",
      "accommodation_confirmation", "confirmation">>

\* conversation c has not entered an optional branch
BranchFree(c) ==
    /\ c.current_step \in Range(LinearPath) \cup Terminal
    /\ ~Has(c.registration_data, "travel_requirements")
    /\ ~Has(c.registration_data, "accommodation")

OnLinearPath ==
    \A i \in DOMAIN conversations :
        BranchFree(conversations[i]) =>
            IF accepted[i] < Len(LinearPath)
            THEN conversations[i].current_step = LinearPath[accepted[i] + 1]
            ELSE accepted[i] = Len(LinearPath) /\ conversations[i].current_step \in Terminal

\* C1: every call leaves each conversation's current_step as it was or moves
\* it along one edge of the Variant B graph (no back-edge, no step skipped),
\* and a conversation that entered no optional branch is, after N accepted
\* calls, at the N-th node after start of the branch-free path.
C1_ForwardAlongGraph ==
    [][/\ \A i \in DOMAIN conversations :
            \/ conversations'[i].current_step = conversations[i].current_step
            \/ <<conversations[i].current_step, conversations'[i].current_step>> \in VariantB
       /\ OnLinearPath']_vars

\* C1 witness: a conversation completed along the branch-free path
C1_Witness ==
    \E i \in DOMAIN conversations :
        /\ BranchFree(conversations[i])
        /\ accepted[i] = Len(LinearPath)
        /\ conversations[i].current_step = "completed"

\* C2: when the validator of a non-terminal step rejects the input, the call
\* returns an error dict whose error_step is the stored step, the conversation
\* (step, fields, scratch) is as before, nothing is written to the file, and
\* the same call made again returns the same and changes nothing.
C2_RejectionChangesNothing ==
    [][(/\ AdvanceStep
        /\ StoredStep(last'.req.conversation_id) \in Range(Branches)
        /\ Check(StoredStep(last'.req.conversation_id), last'.req.user_input) = "reject")
       => /\ last'.result.kind = "ok"
          /\ Has(last'.result.body, "error")
          /\ last'.result.body.error_step = StoredStep(last'.req.conversation_id)
          /\ ~last'.saved
          /\ conversations' = conversations
          /\ durable' = durable
          /\ aliased' = aliased
          /\ \A io \in SaveOutcomes :
                \A again \in {Run(Store(conversations', durable', aliased'),
                                  Entering(last'.req), now', io)} :
                    /\ again.th.result = last'.result
                    /\ again.S = Store(conversations', durable', aliased')]_vars

\* C2 witness: a number of people was rejected while the accommodation
\* scratch object was being filled
C2_Witness ==
    /\ last.op = "advance"
    /\ last.result.kind = "ok"
    /\ Has(last.result.body, "error")
    /\ last.result.body.error_step = "accommodation_people"
    /\ Has(conversations[1], "temp_accommodation")

\* C3: a call on a conversation that is completed or cancelled fails with
\* HTTP 400 "Invalid conversation state", whatever the input, and leaves the
\* conversation's step and fields as they were.
C3_TerminalRejectsCalls ==
    [][(AdvanceStep /\ StoredStep(last'.req.conversation_id) \in Terminal)
       => /\ last'.result = HttpError(400, "Invalid conversation state")
          /\ conversations' = conversations]_vars

\* C3 witness: a call on a completed conversation was answered with 400
C3_Witness ==
    /\ last.op = "advance"
    /\ last.result.kind = "http_error"
    /\ last.result.body.status_code = 400
    /\ StoredStep(last.req.conversation_id) = "completed"
    /\ Has(FieldsOf(last.req.conversation_id), "registration_timestamp")

\* the text is yes or y in any case
SaysYes(u) == ~u.none /\ Lower(u.text) \in {<<"y","e","s">>, <<"y">>}
\* the text is no or n in any case
SaysNo(u) == ~u.none /\ Lower(u.text) \in {<<"n","o">>, <<"n">>}

\* C4: at confirmation, a text that is yes or y in any case moves the
\* conversation to completed and puts registration_timestamp in the fields; any
\* other text moves it to cancelled and leaves registration_timestamp absent.
C4_ConfirmationDecides ==
    [][(/\ AdvanceStep
        /\ StoredStep(last'.req.conversation_id) = "confirmation"
        /\ ~last'.req.user_input.none)
       => LET c == conversations'[Lookup(conversations, last'.req.conversation_id)]
          IN  IF SaysYes(last'.req.user_input)
              THEN /\ c.current_step = "completed"
                   /\ Has(c.registration_data, "registration_timestamp")
              ELSE /\ c.current_step = "cancelled"
                   /\ ~Has(c.registration_data, "registration_timestamp")]_vars

\* C4 witness: an upper-case Y at confirmation completed the registration
C4_Witness ==
    /\ last.op = "advance"
    /\ last.req.user_input = Str(T_Y)
    /\ last.result.kind = "ok"
    /\ Has(last.result.body, "next_step")
    /\ last.result.body.next_step = "completed"

\* the composite key an optional branch fills
CompositeOf(s) ==
    IF s = "travel_requirements_confirmation" THEN "travel_requirements"
    ELSE "accommodation"

\* C5: at travel_requirements_confirmation and accommodation_confirmation a
\* text that is yes/y in any case enters the detail steps, no/n in any case
\* goes to the next required step, any other text gets an error dict naming
\* that step and no advance; and once no/n was answered the fields never hold
\* the branch's composite key.
C5_OptionalBranches ==
    [][/\ (/\ AdvanceStep
           /\ StoredStep(last'.req.conversation_id) \in ConfirmationSteps
           /\ ~last'.req.user_input.none)
          => LET s == StoredStep(last'.req.conversation_id)
                 u == last'.req.user_input
                 c == conversations'[Lookup(conversations, last'.req.conversation_id)]
                 travel == s = "travel_requirements_confirmation"
             IN  CASE SaysYes(u) ->
                        c.current_step = IF travel THEN "travel_requirements_mode"
                                         ELSE "accommodation_type"
                   [] SaysNo(u) ->
                        c.current_step = IF travel THEN "accommodation_confirmation"
                                         ELSE "confirmation"
                   [] OTHER ->
                        /\ c.current_step = s
                        /\ last'.result.kind = "ok"
                        /\ Has(last'.result.body, "error")
                        /\ last'.result.body.error_step = s
       /\ \A d \in declined' :
            ~Has(conversations'[Lookup(conversations', d[1])].registration_data,
                 CompositeOf(d[2]))]_vars

\* C5 witness: a conversation that declined the travel branch and took the
\* accommodation branch is completed
C5_Witness ==
    \E d \in declined :
        /\ d[2] = "travel_requirements_confirmation"
        /\ StoredStep(d[1]) = "completed"
        /\ Has(FieldsOf(d[1]), "accommodation")

\* the last call was accepted and announced step s
Announced(s) ==
    /\ last.op = "advance"
    /\ last.result.kind = "ok"
    /\ Has(last.result.body, "next_step")
    /\ last.result.body.next_step = s

\* C6, as stated: the result of the call that completes a registration holds
\* the collected fields, registration timestamp included, and the id.
C6_AsStated ==
    Announced("completed") =>
        /\ Has(last.result.body, "conversation_id")
        /\ last.result.body.conversation_id = last.req.conversation_id
        /\ Has(last.result.body, "registration_data")
        /\ last.result.body.registration_data = FieldsOf(last.req.conversation_id)

\* C6, amended: the result of the call that completes a registration holds
\* next_step, its message and the conversation id and nothing else; the
\* collected fields are in the result of the call that entered confirmation.
C6_CompletionReturnsId ==
    /\ Announced("completed") =>
        /\ DOMAIN last.result.body = {"next_step", "next_step_message", "conversation_id"}
        /\ last.result.body.conversation_id = last.req.conversation_id
        /\ Has(FieldsOf(last.req.conversation_id), "registration_timestamp")
    /\ Announced("confirmation") =>
        /\ Has(last.result.body, "registration_data")
        /\ last.result.body.registration_data = FieldsOf(last.req.conversation_id)

\* C6 witness: a registration with both composite fields was completed
C6_Witness ==
    /\ Announced("completed")
    /\ Has(FieldsOf(last.req.conversation_id), "travel_requirements")
    /\ Has(FieldsOf(last.req.conversation_id), "accommodation")

\* the values of current_step a client is compared under
AltSteps == {"name", "confirmation", "completed"}

\* C8: the result of a call and the store after it are those of the same call
\* with any other client-supplied current_step.
C8_ClientStepIgnored ==
    [][AdvanceStep =>
        \A cs \in AltSteps :
            \E io \in SaveOutcomes :
                \E r \in {Run(CurrentStore,
                              Entering([last'.req EXCEPT !.current_step = cs]), now, io)} :
                    /\ r.th.result = last'.result
                    /\ r.th.saved = last'.saved
                    /\ r.S = Store(conversations', durable', aliased')]_vars

\* C8 witness: a call whose current_step said start completed a registration
C8_Witness ==
    /\ Announced("completed")
    /\ last.req.current_step = "start"

\* C9: a call that names no stored conversation fails with HTTP 404, changes
\* no conversation and writes nothing to the file.
C9_UnknownIdNotFound ==
    [][(AdvanceStep /\ \A i \in DOMAIN conversations :
                            conversations[i].id # last'.req.conversation_id)
       => /\ last'.result = HttpError(404, "Conversation not found")
          /\ ~last'.saved
          /\ conversations' = conversations
          /\ durable' = durable]_vars

\* C9 witness: a call with an unknown id was answered with 404 while a
\* conversation was stored
C9_Witness ==
    /\ last.op = "advance"
    /\ last.result.kind = "http_error"
    /\ last.result.body.status_code = 404
    /\ conversations # <<>>

\* this step is one call of start_conversation; its result is in last'
StartStep == last'.op = "start" /\ uuids' # uuids

\* C10: a call of start_conversation appends exactly one conversation, in
\* step start with empty fields and no scratch object, and returns its id,
\* which no stored conversation has; at all times the ids of the stored
\* conversations are pairwise distinct and no conversation's id changes.
C10_StartAddsFreshRecord ==
    [][/\ StartStep =>
            /\ Len(conversations') = Len(conversations) + 1
            /\ SubSeq(conversations', 1, Len(conversations)) = conversations
            /\ LET c == conversations'[Len(conversations')]
               IN  /\ DOMAIN c = {"id", "timestamp", "steps", "current_step",
                                  "registration_data"}
                   /\ c.current_step = "start"
                   /\ DOMAIN c.registration_data = {}
                   /\ last'.result = Ok([conversation_id |-> c.id])
                   /\ \A i \in DOMAIN conversations : conversations[i].id # c.id
       /\ \A i \in DOMAIN conversations : conversations'[i].id = conversations[i].id
       /\ \A i, j \in DOMAIN conversations' :
            conversations'[i].id = conversations'[j].id => i = j]_vars

\* C10 witness: a conversation was started after another had been advanced
C10_Witness ==
    /\ last.op = "start"
    /\ Len(conversations) >= 2
    /\ conversations[1].current_step = "name"
    /\ conversations[Len(conversations)].current_step = "start"

\* conversations.json does not hold the conversations in memory
WriteFailed == durable # [state |-> "json", data |-> conversations]

\* C11: a failing write of conversations.json never leaves Start or a call
\* of process_step: Start appends the record and returns its id whatever the
\* write did, and a call that writes (yes at confirmation, or a call on a
\* terminal conversation) leaves the conversations and returns the result it
\* leaves and returns when the write succeeds; yes at confirmation moves the
\* conversation to completed.
C11_WriteFailureTolerated ==
    [][/\ uuids' # uuids =>
            /\ last'.result = Ok([conversation_id |-> uuids'])
            /\ Len(conversations') = Len(conversations) + 1
            /\ conversations'[Len(conversations')].id = uuids'
            /\ conversations'[Len(conversations')].current_step = "start"
       /\ AdvanceStep /\ last'.saved =>
            /\ last'.result.kind # "fault"
            /\ \A io \in SaveOutcomes :
                \E r \in {Run(CurrentStore, Entering(last'.req), now, io)} :
                    /\ r.S.conversations = conversations'
                    /\ r.th.result = last'.result
       /\ ( /\ AdvanceStep
            /\ StoredStep(last'.req.conversation_id) = "confirmation"
            /\ SaysYes(last'.req.user_input) ) =>
            /\ last'.saved
            /\ last'.result.kind = "ok"
            /\ last'.result.body.next_step = "completed"
            /\ conversations'[Lookup(conversations', last'.req.conversation_id)]
                    .current_step = "completed"
      ]_vars

\* C11 witness: a registration was completed by a call whose write failed
\* half way
C11_Witness ==
    /\ Announced("completed")
    /\ last.saved
    /\ durable.state = "partial"
    /\ WriteFailed

\* the file holds conversation i as it is in memory
DurablyHeld(i) ==
    /\ durable.state = "json"
    /\ i \in DOMAIN durable.data
    /\ durable.data[i] = conversations[i]

\* conversation i is completed, with the seven plain fields and the timestamp
CompletedInFull(i) ==
    /\ conversations[i].current_step = "completed"
    /\ {"full_name", "email", "mobile", "age_group", "abhyasi_id", "arrival_date",
        "departure_date", "registration_timestamp"}
            \subseteq DOMAIN conversations[i].registration_data

\* C12: when a call completes a registration and its write succeeds, the
\* file then holds that conversation with current_step completed and all its
\* registration_data, registration_timestamp included; and as long as no
\* write has failed, every conversation completed in memory is completed in
\* the file.
C12_DurableAtCompletion ==
    [][/\ (AdvanceStep /\ Announced("completed")' /\ writes'.outcome = "written") =>
            \E i \in {Lookup(conversations', last'.req.conversation_id)} :
                /\ CompletedInFull(i)'
                /\ DurablyHeld(i)'
                /\ durable'.data[i].current_step = "completed"
                /\ Has(durable'.data[i].registration_data, "registration_timestamp")
       /\ ~writes'.lost =>
            \A i \in DOMAIN conversations' :
                conversations'[i].current_step = "completed" => DurablyHeld(i)'
      ]_vars

\* C12 witness: a completed registration with both composite fields is in
\* the file, and a later write has rewritten the file
C12_Witness ==
    /\ ~writes.lost
    /\ last.op = "advance"
    /\ last.result.kind = "http_error"
    /\ \E i \in DOMAIN conversations :
        /\ CompletedInFull(i)
        /\ DurablyHeld(i)
        /\ Has(conversations[i].registration_data, "travel_requirements")
        /\ Has(conversations[i].registration_data, "accommodation")

\* the integers the texts sent to accommodation_people denote; the other
\* texts denote none
CountValue ==
    (T_zero :> 0) @@ (T_one :> 1) @@ (T_seven :> 7) @@ (T_signed :> 9) @@
    (T_ten :> 10) @@ (T_eleven :> 11) @@ (T_minus :> (0 - 1)) @@
    (T_phone :> 1234567890)

\* the text denotes an integer from 1 to 10
IsCount(u) ==
    /\ ~u.none
    /\ u.text \in DOMAIN CountValue
    /\ CountValue[u.text] >= 1
    /\ CountValue[u.text] <= 10

\* C16: at accommodation_people a call is accepted exactly when its input
\* denotes an integer n with 1 <= n <= 10 (0 and 11 are rejected, 1 and 10
\* accepted); an accepted call stores n, the integer, as
\* accommodation.number_of_people; any other call leaves temp_accommodation,
\* current_step and the rest of the conversation as they were.
C16_PeopleCountInRange ==
    [][(AdvanceStep /\ StoredStep(last'.req.conversation_id) = "accommodation_people") =>
        \E i \in {Lookup(conversations, last'.req.conversation_id)} :
            IF IsCount(last'.req.user_input)
            THEN /\ Accepted([result |-> last'.result])
                 /\ conversations'[i].current_step = "confirmation"
                 /\ conversations'[i].registration_data.accommodation.number_of_people
                        = CountValue[last'.req.user_input.text]
                 /\ conversations'[i].registration_data.accommodation.number_of_people
                        \in 1..10
            ELSE /\ ~Accepted([result |-> last'.result])
                 /\ conversations'[i] = conversations[i]
                 /\ Has(conversations'[i], "temp_accommodation")
      ]_vars

\* C16 witness: the text " +09" was accepted and 9 stored
C16_Witness ==
    /\ last.op = "advance"
    /\ last.req.user_input = Str(T_signed)
    /\ Announced("confirmation")
    /\ FieldsOf(last.req.conversation_id).accommodation.number_of_people = 9

\* C17: at every step but start and the terminal ones, a call without
\* user_input is answered with an error dict whose error_step is the stored
\* step, not with an unhandled exception, and leaves the conversation as it
\* was.
C17_AsStated ==
    [][( /\ AdvanceStep
         /\ StoredStep(last'.req.conversation_id) \in Range(Branches) \ {"start"}
         /\ last'.req.user_input.none ) =>
            /\ last'.result.kind = "ok"
            /\ Has(last'.result.body, "error")
            /\ last'.result.body.error_step = StoredStep(last'.req.conversation_id)
            /\ conversations' = conversations
      ]_vars

\* the steps at which a call without user_input gets the error dict
NoneRejectingSteps ==
    {"name", "age_group", "abhyasi_id", "travel_requirements_location",
     "accommodation_type"}

\* what the calls without user_input do: the error dict at the five steps
\* that test the input for truth or membership, an unhandled exception at
\* the other nine, the conversation unchanged at all of them
C17_NoneByStep ==
    [][( /\ AdvanceStep
         /\ StoredStep(last'.req.conversation_id) \in Range(Branches) \ {"start"}
         /\ last'.req.user_input.none ) =>
            /\ conversations' = conversations
            /\ IF StoredStep(last'.req.conversation_id) \in NoneRejectingSteps
               THEN /\ last'.result.kind = "ok"
                    /\ last'.result.body.error_step
                        = StoredStep(last'.req.conversation_id)
               ELSE last'.result.kind = "fault"
      ]_vars

\* the step that stores each key of registration_data
KeyOwner ==
    [full_name |-> "name", email |-> "email", mobile |-> "mobile",
     age_group |-> "age_group", abhyasi_id |-> "abhyasi_id",
     arrival_date |-> "arrival_date", departure_date |-> "departure_date",
     travel_requirements |-> "travel_requirements_location",
     accommodation |-> "accommodation_people",
     registration_timestamp |-> "confirmation"]

\* every key of c's registration_data belongs to a step c is past
KeysArePassed(c) ==
    \A k \in DOMAIN c.registration_data :
        /\ k \in DOMAIN KeyOwner
        /\ Position(c.current_step) > Position(KeyOwner[k])
        /\ k = "registration_timestamp" => c.current_step = "completed"

\* C14: between calls, the registration_data of a conversation holds a key
\* only when the conversation is past the step that stores it (full_name
\* past name, ..., travel_requirements past travel_requirements_location,
\* accommodation past accommodation_people), registration_timestamp only
\* when it is completed, and no step removes a key.
C14_KeysOnlyAfterTheirStep ==
    [][/\ \A i \in DOMAIN conversations' : KeysArePassed(conversations'[i])
       /\ \A i \in DOMAIN conversations :
            DOMAIN conversations[i].registration_data
                \subseteq DOMAIN conversations'[i].registration_data
      ]_vars

\* C14 witness: a conversation at accommodation_people holds
\* travel_requirements and the seven plain keys, and neither accommodation
\* nor registration_timestamp
C14_Witness ==
    \E i \in DOMAIN conversations :
        /\ conversations[i].current_step = "accommodation_people"
        /\ DOMAIN conversations[i].registration_data =
            {"full_name", "email", "mobile", "age_group", "abhyasi_id",
             "arrival_date", "departure_date", "travel_requirements"}

\* the two composites: the key of the temporary dict, the step at which it
\* exists, the key it is committed under, and its sub-keys
Composites ==
    {[temp |-> "temp_travel_requirements", step |-> "travel_requirements_location",
      field |-> "travel_requirements", subs |-> {"transport_mode", "arrival_location"}],
     [temp |-> "temp_accommodation", step |-> "accommodation_people",
      field |-> "accommodation", subs |-> {"type", "number_of_people"}]}

\* record c holds its temporary dicts and its composites as C15 says
ScratchInOrder(c) ==
    \A m \in Composites :
        /\ Has(c, m.temp) => c.current_step = m.step
        /\ ~(Has(c, m.temp) /\ Has(c.registration_data, m.field))
        /\ Has(c.registration_data, m.field) =>
                DOMAIN c.registration_data[m.field] = m.subs

\* the records of conversations.json, none when it does not parse
FileRecords == IF durable.state = "json" THEN Range(durable.data) ELSE {}

\* C15: the temporary dict of a composite exists only while the conversation
\* is at the composite's last sub-step; the call accepted at that step puts
\* the dict, with both sub-keys, under the composite's key and deletes it
\* from the conversation; a committed composite never changes; so no record
\* in memory or in conversations.json holds a composite together with its
\* temporary dict, or a composite without a sub-key.
C15_ScratchCommittedOnce ==
    [][/\ \A c \in Range(conversations') \cup FileRecords' : ScratchInOrder(c)
       /\ \A m \in Composites :
            /\ ( /\ AdvanceStep
                 /\ StoredStep(last'.req.conversation_id) = m.step
                 /\ Accepted([result |-> last'.result]) ) =>
                    \E i \in {Lookup(conversations, last'.req.conversation_id)} :
                        /\ Has(conversations[i], m.temp)
                        /\ ~Has(conversations'[i], m.temp)
                        /\ Has(conversations'[i].registration_data, m.field)
                        /\ \A k \in DOMAIN conversations[i][m.temp] :
                            conversations'[i].registration_data[m.field][k]
                                = conversations[i][m.temp][k]
            /\ \A i \in DOMAIN conversations :
                    Has(conversations[i].registration_data, m.field) =>
                        /\ Has(conversations'[i].registration_data, m.field)
                        /\ conversations'[i].registration_data[m.field]
                            = conversations[i].registration_data[m.field]
      ]_vars

\* C15 witness: conversations.json was written while a conversation held
\* its accommodation dict and its committed travel_requirements, and the
\* conversation has committed the accommodation since
C15_Witness ==
    /\ \E c \in FileRecords :
        /\ Has(c, "temp_accommodation")
        /\ Has(c.registration_data, "travel_requirements")
    /\ \E i \in DOMAIN conversations :
        /\ Has(conversations[i].registration_data, "accommodation")
        /\ ~Has(conversations[i], "temp_accommodation")

(***************************************************************************)
(* Properties of GET /registrations.                                       *)
(***************************************************************************)
\* the registration_data of the completed conversations
CompletedFields ==
    {conversations[i].registration_data :
        i \in {j \in DOMAIN conversations : conversations[j].current_step = "completed"}}

\* how many completed registrations have a timestamp below t, at most t
CountBelow(t) == Cardinality({x \in CompletedFields : x.registration_timestamp < t})
CountUpTo(t) == Cardinality({x \in CompletedFields : x.registration_timestamp <= t})

\* x can stand at position p (from 0) of the completed registrations in
\* ascending or descending order of registration_timestamp
FitsAt(x, p, sort_order) ==
    LET n == Cardinality(CompletedFields)
        q == IF sort_order = "desc" THEN n - 1 - p ELSE p
    IN  /\ x \in CompletedFields
        /\ CountBelow(x.registration_timestamp) <= q
        /\ q < CountUpTo(x.registration_timestamp)

\* the positions [skip, skip + limit) that exist among n elements, counted
\* from 0; none when skip is past the end or limit is 0
Window(skip, limit, n) == {p \in skip..(skip + limit - 1) : p < n}

\* the page and the count of the last List call are those of the claim
PageAsClaimed ==
    LET q == last.req
        body == last.result.body
        page == body.registrations
        w == Window(q.skip, q.limit, Cardinality(CompletedFields))
    IN  /\ last.result.kind = "ok"
        /\ body.total_count = Cardinality(CompletedFields)
        /\ Len(page) = Cardinality(w)
        /\ \A k \in DOMAIN page : page[k] \in CompletedFields
        /\ \A k, l \in DOMAIN page : k # l => page[k] # page[l]
        /\ q.sort_by = "timestamp" =>
                \A k \in DOMAIN page : FitsAt(page[k], q.skip + k - 1, q.sort_order)

C18_OnlyTheTargetChanges ==
    [][/\ uuids' # uuids =>
            \A i \in DOMAIN conversations : conversations'[i] = conversations[i]
       /\ AdvanceStep =>
            \A i \in DOMAIN conversations :
                conversations[i].id # last'.req.conversation_id =>
                    conversations'[i] = conversations[i]
       /\ last'.op = "list" =>
            /\ conversations' = conversations
            /\ durable' = durable
            /\ writes' = writes
            /\ ~last'.saved
       /\ Len(conversations') >= Len(conversations)
       /\ \A i \in DOMAIN conversations :
            /\ conversations'[i].id = conversations[i].id
            /\ conversations'[i].timestamp = conversations[i].timestamp
      ]_vars

\* C18 witness: List has run on a store of two loaded conversations, one of
\* them completed, and two started since, the later of them advanced
C18_Witness ==
    /\ last.op = "list"
    /\ last.result.body.total_count >= 1
    /\ Len(conversations) = 4
    /\ conversations[3].current_step = "start"
    /\ conversations[4].current_step = "name"

(***************************************************************************)
(* Properties of two concurrent calls.                                     *)
(***************************************************************************)
BothDone == \A t \in Threads : threads[t].pc = "done"

\* the store and the results are those of running thread a's call, then
\* thread b's, from the store the two requests found
SerialOrder(a, b) ==
    \E ioa, iob \in SaveOutcomes :
        \E ra \in {Run(base, Entering(threads[a].req), now, ioa)} :
            \E rb \in {Run(ra.S, Entering(threads[b].req), now, iob)} :
                /\ rb.S.conversations = conversations
                /\ ra.th.result = threads[a].result
                /\ rb.th.result = threads[b].result

\* C7: two concurrent calls on one conversation leave the conversation and
\* return the results of the two calls run one after the other in some
\* order, and neither ends in an unhandled exception.
C7_AsStated ==
    BothDone =>
        /\ SerialOrder(1, 2) \/ SerialOrder(2, 1)
        /\ \A t \in Threads : threads[t].result.kind # "fault"

\* C19: with two calls running at once on a conversation at confirmation,
\* one with yes and one with another text, a conversation that is completed
\* never becomes cancelled, and no conversation is cancelled while its
\* registration_data holds registration_timestamp or while conversations.json
\* holds it as completed.
C19_AsStated ==
    [][/\ \A i \in DOMAIN conversations :
            conversations[i].current_step = "completed" =>
                conversations'[i].current_step # "cancelled"
       /\ \A i \in DOMAIN conversations' :
            conversations'[i].current_step = "cancelled" =>
                /\ ~Has(conversations'[i].registration_data, "registration_timestamp")
                /\ ~( /\ durable'.state = "json"
                      /\ i \in DOMAIN durable'.data
                      /\ durable'.data[i].current_step = "completed" )
      ]_vars

\* C20: every accepted call moves the conversation forward along the chain;
\* a terminal conversation has had at least 11 and at most 15 accepted
\* calls since start, and one that is not terminal fewer than 15; a call with
\* a text that leaves a conversation at a step that is not terminal returned
\* that step's error dict; at every step that is not terminal some input is
\* accepted, and with clients whose inputs are accepted in the end, every
\* conversation reaches completed or cancelled.
C20_TerminatesWithinBounds ==
    /\ [][/\ AdvanceStep /\ Accepted([result |-> last'.result]) =>
               \E i \in {Lookup(conversations, last'.req.conversation_id)} :
                   /\ Position(conversations'[i].current_step)
                       > Position(conversations[i].current_step)
                   /\ accepted'[i] = accepted[i] + 1
          /\ ( /\ AdvanceStep
               /\ StoredStep(last'.req.conversation_id) \in Range(Branches)
               /\ ~last'.req.user_input.none
               /\ conversations'[Lookup(conversations, last'.req.conversation_id)]
                       .current_step = StoredStep(last'.req.conversation_id) ) =>
                   /\ last'.result.kind = "ok"
                   /\ Has(last'.result.body, "error")
                   /\ last'.result.body.error_step
                       = StoredStep(last'.req.conversation_id)
          /\ \A i \in DOMAIN conversations' :
               IF conversations'[i].current_step \in Terminal
               THEN accepted'[i] >= 11 /\ accepted'[i] <= 15
               ELSE accepted'[i] < 15
          ]_vars
    /\ [](\A id \in 1..MaxConvs :
             StoredStep(id) \in Range(Branches) => CanProceed(id))
    /\ \A id \in 1..MaxConvs :
           (Lookup(conversations, id) # 0) ~> (StoredStep(id) \in Terminal)

\* C20 witness: a conversation became terminal with its 15th accepted call,
\* after calls that were rejected
C20_Witness ==
    /\ last.op = "advance"
    /\ StoredStep(last.req.conversation_id) \in Terminal
    /\ Accepted([result |-> last.result])
    /\ accepted[Lookup(conversations, last.req.conversation_id)] = 15

====
